---- MODULE Spec2Model ----
(***************************************************************************)
(* State-machine model of the CFlat debugger runtime client,              *)
(* src/src/CFlatRuntime.ts (class CFlatRuntime) over the transport of     *)
(* src/src/HttpRequest.ts (function get).                                 *)
(*                                                                         *)
(* Node runs every callback to completion on one thread, so each public   *)
(* method call, each response callback, each timer callback and each      *)
(* setImmediate callback is one atomic action.  Requests in flight are     *)
(* answered in any order.                                                  *)
(***************************************************************************)
EXTENDS Bags, FiniteSets, Integers, Sequences, TLC

\* ----------------------------------------------------------------------
\* Bounds of the model
\* ----------------------------------------------------------------------
\* calls of start/continue/step/pause/stop made by the front end
MaxCommands == 2
\* calls of stackTrace/setBreakPoints/source/sources/variables/evaluate
MaxDataCalls == 2
\* expirations of a poll timer
MaxPolls == 2
\* length of the uri strings normalization is checked on
MaxUriLen == 5
\* calls, control and data together, of a session that mixes both
MaxSessionCalls == 2

VARIABLES
    pollTimeout,         \* this._pollTimeout: "armed" when it names a timer that is
                         \* armed, "inactive" when undefined, fired or cleared
    orphanTimers,        \* number of armed timers this._pollTimeout no longer names
    inflight,            \* bag of the HTTP requests awaiting their transport callback
    immediates,          \* the setImmediate queue of sendEvent, oldest first
    emitted,             \* event name -> number of this.emit(event) performed
    variableReferences,  \* this._variableReferences
    nCommands,           \* history: number of control calls made
    lastCmd,             \* history: the last control call made
    nData,               \* history: number of data calls made
    nCallbacks,          \* history: number of data-call callbacks invoked
    result,              \* history: what the last data-call callback received
    fired,               \* history: number of poll-timer expirations
    failed,              \* history: some response was a transport error
    lastSent,            \* history: the kind of the request sent last
    thrown,              \* history: some callback let an exception escape
    remote               \* environment: the execution state of the debuggee

vars == << pollTimeout, orphanTimers, inflight, immediates, emitted,
           variableReferences, nCommands, lastCmd, nData, nCallbacks, result,
           fired, failed, lastSent, thrown, remote >>

\* ----------------------------------------------------------------------
\* Values
\* ----------------------------------------------------------------------
Events == {"stopOnPause", "stopOnBreakpoint", "stopOnStep", "end"}

StopEvents == {"stopOnPause", "stopOnBreakpoint", "stopOnStep"}

\* A JavaScript scalar: its typeof and its String() conversion.
Str(s) == [t |-> "string", s |-> s]

Undefined == [t |-> "undefined", s |-> "undefined"]

Num(n) == [t |-> "number", s |-> ToString(n)]

\* The parsed JSON value null: reading a property of it throws a TypeError.
JNull == [k |-> "null"]

\* A JavaScript string value: a text/plain body handed over unparsed, or a
\* JSON string.  Every property the handlers read of a string is undefined.
JString(s) == [k |-> "string", s |-> s]

JText == JString("")

\* A property that is missing (undefined) or null, and a JSON array.
Absent == [k |-> "absent"]

List(items) == [k |-> "list", items |-> items]

\* A JSON object with the properties a variable node is read for.
Obj(name, type, value, values) ==
    [k |-> "obj", name |-> name, type |-> type, value |-> value, values |-> values]

\* ----------------------------------------------------------------------
\* Requests and what the transport answers
\* ----------------------------------------------------------------------
ExecutionStates == {"Running", "ExternalPaused", "BreakpointPaused", "StepPaused"}

PollReq == [kind |-> "poll", url |-> "/execution/poll"]

ContinueReq == [kind |-> "continue", url |-> "/execution/continue"]

StepReq == [kind |-> "step", url |-> "/execution/step"]

PauseReq == [kind |-> "pause", url |-> "/execution/pause"]

CommandReqs == {ContinueReq, StepReq, PauseReq}

\* The JSON values the remote answers an /execution/* request with:
\* { execution: <state> }, an object without the field, or null.
ExecPayloads ==
    {[k |-> "obj", execution |-> Str(e)] : e \in ExecutionStates}
        \cup {[k |-> "obj", execution |-> Undefined], JNull}

\* What HttpRequest.get hands to its callback: (undefined, Error) from the
\* 'error' event, or (content-type header, body text) from the 'end' event.
\* A body is described by whether JSON.parse accepts it and by the value
\* JSON.parse returns; "other" stands for any other or a missing header.
TransportError == [err |-> TRUE, contentType |-> "undefined", parses |-> FALSE, val |-> JText]

Body(ct, ok, v) == [err |-> FALSE, contentType |-> ct, parses |-> ok, val |-> v]

Responses(payloads) ==
    {TransportError, Body("other", TRUE, JText), Body("text/plain", FALSE, JText),
     Body("application/json", FALSE, JText)}
        \cup {Body("application/json", TRUE, v) : v \in payloads}

\* The branch the callback of request() takes for a response:
\*   "callback" - callback(val) is called, "stop" - this.stop() is called,
\*   "throw" - JSON.parse throws a SyntaxError, "ignored" - nothing is done.
RequestBranch(resp) ==
    IF ~resp.err
    THEN IF resp.contentType = "application/json"
         THEN IF resp.parses THEN "callback" ELSE "throw"
         ELSE IF resp.contentType = "text/plain" THEN "callback" ELSE "ignored"
    ELSE "stop"

\* The value callback(d) receives.
RequestValue(resp) ==
    IF resp.contentType = "application/json" THEN resp.val ELSE JText

\* response["execution"]
Execution(v) == IF v.k = "obj" THEN v.execution ELSE Undefined

\* x === "literal"
StrictEq(x, s) == x.t = "string" /\ x.s = s

\* ----------------------------------------------------------------------
\* The program state as one record, and the methods as operators on it
\* ----------------------------------------------------------------------
Cur ==
    [pollTimeout |-> pollTimeout, orphanTimers |-> orphanTimers,
     inflight |-> inflight, immediates |-> immediates,
     variableReferences |-> variableReferences, failed |-> failed,
     lastSent |-> lastSent, thrown |-> thrown]

\* The number of timers that are armed.
ArmedTimers(st) ==
    st.orphanTimers + (IF st.pollTimeout = "armed" THEN 1 ELSE 0)

\* sendEvent: the emit is deferred with setImmediate.
sendEvent(st, event) == [st EXCEPT !.immediates = Append(@, event)]

\* clearTimeout(this._pollTimeout): disarms the timer the handle names; on
\* undefined and on a timer that fired or was cleared it does nothing.
clearTimeout(st) == [st EXCEPT !.pollTimeout = "inactive"]

\* this._pollTimeout = setTimeout(...): a new timer is armed and the handle
\* overwritten; a timer the handle named stays armed, out of reach.
setTimeout(st) ==
    [st EXCEPT !.orphanTimers = IF st.pollTimeout = "armed" THEN @ + 1 ELSE @,
               !.pollTimeout = "armed"]

\* An exception that leaves a callback run from the event loop.
throw(st) == [st EXCEPT !.thrown = TRUE]

stop(st) == sendEvent(clearTimeout(st), "end")

\* request(): the HTTP GET is sent; its callback runs in a later action.
request(st, req) ==
    [st EXCEPT !.inflight = @ (+) SetToBag({req}), !.lastSent = req.kind]

\* The else-branch of the callback of request().
requestFailed(st) == stop([st EXCEPT !.failed = TRUE])

\* handleExecution as it would be without its clearTimeout calls
handleExecutionKeepsTimer(st, response) ==
    IF response.k = "null" THEN throw(st)
    ELSE LET execution == Execution(response) IN
         IF StrictEq(execution, "ExternalPaused")
         THEN sendEvent(st, "stopOnPause")
         ELSE IF StrictEq(execution, "BreakpointPaused")
         THEN sendEvent(st, "stopOnBreakpoint")
         ELSE IF StrictEq(execution, "StepPaused")
         THEN sendEvent(st, "stopOnStep")
         ELSE st

handleExecution(st, response) ==
    IF response.k = "null" THEN throw(st)
    ELSE LET execution == Execution(response) IN
         IF StrictEq(execution, "ExternalPaused")
         THEN clearTimeout(sendEvent(st, "stopOnPause"))
         ELSE IF StrictEq(execution, "BreakpointPaused")
         THEN clearTimeout(sendEvent(st, "stopOnBreakpoint"))
         ELSE IF StrictEq(execution, "StepPaused")
         THEN clearTimeout(sendEvent(st, "stopOnStep"))
         ELSE st

pollExecution(st) == request(st, PollReq)

\* pollCallback as it would be if a detected pause did not end the loop.
pollCallbackAlwaysReschedules(st, response) ==
    IF response.k = "null" THEN throw(st)
    ELSE LET execution == Execution(response) IN
         IF StrictEq(execution, "BreakpointPaused")
         THEN setTimeout(sendEvent(st, "stopOnBreakpoint"))
         ELSE IF StrictEq(execution, "StepPaused")
         THEN setTimeout(sendEvent(st, "stopOnStep"))
         ELSE IF ~StrictEq(execution, "ExternalPaused")
         THEN setTimeout(st)
         ELSE st

\* The callback pollExecution passes to request().
pollCallback(st, response) ==
    IF response.k = "null" THEN throw(st)
    ELSE LET execution == Execution(response) IN
         IF StrictEq(execution, "BreakpointPaused")
         THEN sendEvent(st, "stopOnBreakpoint")
         ELSE IF StrictEq(execution, "StepPaused")
         THEN sendEvent(st, "stopOnStep")
         ELSE IF ~StrictEq(execution, "ExternalPaused")
         THEN setTimeout(st)
         ELSE st

\* pause() as it would be if it took the pause for done
pauseAssumed(st) ==
    sendEvent(clearTimeout(request(st, PauseReq)), "stopOnPause")

\* continue() as it would be if it left the next poll to the timer
continueWithoutPoll(st) == clearTimeout(request(st, ContinueReq))

\* pause() as it would be if it restarted the poll loop as continue() does
pauseAndPoll(st) == pollExecution(clearTimeout(request(st, PauseReq)))

\* start() as it would be if it began the session with a new table
startNewTable(st) ==
    pollExecution(clearTimeout([st EXCEPT !.variableReferences = <<>>]))

start(st) == pollExecution(clearTimeout(st))

continue(st) == pollExecution(clearTimeout(request(st, ContinueReq)))

step(st) == pollExecution(clearTimeout(request(st, StepReq)))

pause(st) == clearTimeout(request(st, PauseReq))

\* ----------------------------------------------------------------------
\* The variable tree: parseVariables, parseVariable
\* ----------------------------------------------------------------------
\* The scan as it would be if it never found the path.
FindReferenceNever(table, path) == 0

\* The scan as it would be if it looked at the newest entry only.
FindReferenceNewest(table, path) ==
    IF table # <<>> /\ table[Len(table)] = path THEN Len(table) ELSE 0

\* The linear scan of parseVariable: the 1-based index of path, 0 if none.
FindReference(table, path) ==
    IF \E i \in 1 .. Len(table) : table[i] = path
    THEN CHOOSE i \in 1 .. Len(table) :
             table[i] = path /\ \A j \in 1 .. (i - 1) : table[j] # path
    ELSE 0

\* path = path.length > 0 ? path + "." + varName : varName
\* (undefined.length throws; a number has no length, so varName is taken)
NextPath(path, varName) ==
    IF path.t = "string" /\ path.s # ""
    THEN Str(path.s \o "." \o varName.s)
    ELSE varName

Thrown(table) == [threw |-> TRUE, def |-> FALSE, var |-> Absent, table |-> table]

RECURSIVE parseVariable(_, _, _)
RECURSIVE ParseLoop(_, _, _, _, _)

\* parseVariables(path, vars): def = FALSE is the result undefined.
parseVariables(path, list, table) ==
    IF list.k # "list"
    THEN [threw |-> FALSE, def |-> FALSE, var |-> Absent, table |-> table]
    ELSE ParseLoop(path, list.items, 1, <<>>, table)

\* The for loop of parseVariables from item i on, out the variables so far.
ParseLoop(path, items, i, out, table) ==
    IF i > Len(items)
    THEN [threw |-> FALSE, def |-> TRUE, var |-> List(out), table |-> table]
    ELSE LET v == items[i] IN
         IF v.k = "null" \/ path.t = "undefined"
         THEN Thrown(table)
         ELSE LET varName == IF v.k = "obj" THEN v.name ELSE Undefined
                  path2 == NextPath(path, varName)
                  r == parseVariable(path2, v, table)
              IN IF r.threw
                 THEN Thrown(r.table)
                 ELSE ParseLoop(path2, items, i + 1,
                                IF r.def THEN Append(out, r.var) ELSE out, r.table)

\* parseVariable(path, v): def = FALSE is the result undefined.
parseVariable(path, v, table) ==
    IF v.k = "null"
    THEN Thrown(table)
    ELSE IF v.k = "obj" /\ v.name.t = "string" /\ v.type.t = "string"
                /\ v.value.t = "string"
    THEN LET r == parseVariables(path, v.values, table) IN
         IF r.threw
         THEN Thrown(r.table)
         ELSE LET found == FindReference(r.table, path.s)
                  table2 == IF r.def /\ found = 0
                            THEN Append(r.table, path.s) ELSE r.table
                  reference == IF ~r.def THEN 0
                               ELSE IF found # 0 THEN found ELSE Len(table2)
              IN [threw |-> FALSE, def |-> TRUE, table |-> table2,
                  var |-> [k |-> "var", name |-> v.name.s, type |-> v.type.s,
                           value |-> v.value.s, values |-> r.var,
                           reference |-> reference]]
    ELSE [threw |-> FALSE, def |-> FALSE, var |-> Absent, table |-> table]

\* ----------------------------------------------------------------------
\* Stack, breakpoints, source: the pure parts
\* ----------------------------------------------------------------------
Min(a, b) == IF a < b THEN a ELSE b

Max(a, b) == IF a > b THEN a ELSE b

\* slice with its end left out: everything from the start index on
SliceToEnd(seq, from, to) ==
    SubSeq(seq, (IF from < 0 THEN Max(Len(seq) + from, 0) ELSE Min(from, Len(seq))) + 1,
           Len(seq))

\* Array.prototype.slice(from, to): a negative index counts from the end.
Slice(seq, from, to) ==
    LET len == Len(seq)
        lo == IF from < 0 THEN Max(len + from, 0) ELSE Min(from, len)
        hi == IF to < 0 THEN Max(len + to, 0) ELSE Min(to, len)
    IN SubSeq(seq, lo + 1, hi)

\* \w of a JavaScript regular expression
WordChars ==
    {"a", "b", "c", "f", "x", "y", "z", "A", "Z", "0", "1", "9", "_"}

RECURSIVE ReplaceBackslashes(_)
\* uri.replace(/\\/g, "/") on a string given as its characters
ReplaceBackslashes(uri) ==
    IF uri = <<>> THEN <<>>
    ELSE <<IF Head(uri) = "\\" THEN "/" ELSE Head(uri)>>
             \o ReplaceBackslashes(Tail(uri))

\* The second replace as it would be if it cut at the first "."
StripFromFirstDot(uri) ==
    LET dots == {i \in 1 .. Len(uri) : uri[i] = "."}
    IN IF dots = {} THEN uri
       ELSE SubSeq(uri, 1, (CHOOSE i \in dots : \A j \in dots : i <= j) - 1)

\* .replace(/(.*)\.\w+$/, "$1"): the greedy (.*) ends at the last "." that
\* is followed up to the end of the string by one or more word characters.
StripExtension(uri) ==
    LET dots == {i \in 1 .. Len(uri) :
                    /\ uri[i] = "."
                    /\ i < Len(uri)
                    /\ \A j \in (i + 1) .. Len(uri) : uri[j] \in WordChars}
    IN IF dots = {} THEN uri
       ELSE SubSeq(uri, 1, (CHOOSE i \in dots : \A j \in dots : j <= i) - 1)

parseUri(uri) == StripExtension(ReplaceBackslashes(uri))

\* A remote stack frame object.
Frame(name, sourceUri, line, column) ==
    [k |-> "obj", name |-> name, sourceUri |-> sourceUri, line |-> line,
     column |-> column]

RECURSIVE FramesLoop(_, _, _)
\* The for loop of stackTrace from item i on; threw when an item is null.
FramesLoop(items, i, frames) ==
    IF i > Len(items) THEN [threw |-> FALSE, frames |-> frames]
    ELSE LET frame == items[i] IN
         IF frame.k = "null" THEN [threw |-> TRUE, frames |-> frames]
         ELSE IF frame.k = "obj" /\ frame.name.t = "string"
                   /\ frame.sourceUri.t = "string" /\ frame.line.t = "number"
                   /\ frame.column.t = "number"
         THEN FramesLoop(items, i + 1,
                  Append(frames, [index |-> Len(frames), name |-> frame.name.s,
                                  sourceUri |-> frame.sourceUri.s,
                                  line |-> frame.line.s, column |-> frame.column.s]))
         ELSE FramesLoop(items, i + 1, frames)

\* The characters of a sourceUri the remote reports: uris are handled as
\* sequences of characters, as parseUri needs them.
Chars(s) ==
    CASE s = "src/a" -> <<"s", "r", "c", "/", "a">>
      [] s = "src/b" -> <<"s", "r", "c", "/", "b">>

\* The remote answer to /breakpoints/set.
BreakpointsObj(sourceUri, breakpoints) ==
    [k |-> "obj", sourceUri |-> sourceUri, breakpoints |-> breakpoints]

\* setBreakPoints without the typeof check of its loop
NumbersOfUnchecked(items) == [i \in 1 .. Len(items) |-> items[i].s]

RECURSIVE NumbersOf(_)
\* The for loop of setBreakPoints: the entries with typeof "number".
NumbersOf(items) ==
    IF items = <<>> THEN <<>>
    ELSE (IF Head(items).t = "number" THEN <<Head(items).s>> ELSE <<>>)
             \o NumbersOf(Tail(items))

\* ----------------------------------------------------------------------
\* The data methods and the callbacks they pass to request()
\* A callback yields the new state, whether the caller's callback was
\* invoked, and the value it was invoked with.
\* ----------------------------------------------------------------------
Called(st, value) == [st |-> st, called |-> TRUE, value |-> value]

NotCalled(st) == [st |-> st, called |-> FALSE, value |-> Absent]

StackTraceReq(startFrame, frameCount) ==
    [kind |-> "stackTrace", url |-> "/stacktrace", startFrame |-> startFrame,
     frameCount |-> frameCount]

stackTraceCallback(st, req, response) ==
    IF response.k = "string" THEN Called(st, <<>>)
    ELSE IF response.k # "list" THEN NotCalled(throw(st))
    ELSE LET r == FramesLoop(response.items, 1, <<>>) IN
         IF r.threw THEN NotCalled(throw(st))
         ELSE Called(st, Slice(r.frames, req.startFrame,
                               req.startFrame + req.frameCount))

SourcesReq == [kind |-> "sources", url |-> "/sources/list"]

sourcesCallback(st, req, response) == Called(st, response)

\* arg is history: the uri the method was called with.
SourceReq(uri) ==
    [kind |-> "source", url |-> "/sources/content?uri=", uri |-> parseUri(uri),
     arg |-> uri]

sourceCallback(st, req, response) ==
    IF response.k = "string" THEN Called(st, response.s) ELSE Called(st, "\n")

\* arg is history: the path the method was called with.
SetBreakPointsReq(path, lines) ==
    [kind |-> "setBreakPoints", url |-> "/breakpoints/set?path=&lines=",
     path |-> parseUri(path), lines |-> lines, arg |-> path]

setBreakPointsCallback(st, req, response) ==
    IF response.k = "null" THEN NotCalled(throw(st))
    ELSE LET sourceUri == IF response.k = "obj" THEN response.sourceUri
                          ELSE Undefined
         IN IF sourceUri.t = "string"
            THEN IF response.breakpoints.k = "list"
                 THEN Called(st, [uri |-> Chars(sourceUri.s),
                                  lines |-> NumbersOf(response.breakpoints.items)])
                 ELSE NotCalled(throw(st))
            ELSE Called(st, [uri |-> req.path, lines |-> <<>>])

\* start and count are the window the front end asks for
\* (variablesRequest: args.start, args.count); variables() takes no window
\* and sends none.
ValuesReq(reference, first, count) ==
    [kind |-> "values", url |-> "/values", reference |-> reference,
     start |-> first, count |-> count]

\* The root listing as it would be if it started a new table on each fetch
valuesCallbackNewTable(st, req, response) ==
    IF response.k = "null" THEN NotCalled(throw(st))
    ELSE LET list == IF response.k = "obj" THEN response.values ELSE Absent
             r == parseVariables(Str(""), list, <<>>)
             st2 == [st EXCEPT !.variableReferences = r.table]
         IN IF r.threw THEN NotCalled(throw(st2))
            ELSE Called(st2, IF r.def THEN r.var.items ELSE <<>>)

\* The callback of variables() for reference <= 0.
valuesCallback(st, req, response) ==
    IF response.k = "null" THEN NotCalled(throw(st))
    ELSE LET list == IF response.k = "obj" THEN response.values ELSE Absent
             r == parseVariables(Str(""), list, st.variableReferences)
             st2 == [st EXCEPT !.variableReferences = r.table]
         IN IF r.threw THEN NotCalled(throw(st2))
            ELSE Called(st2, IF r.def THEN r.var.items ELSE <<>>)

EvaluateReq(kind, path, reference) ==
    [kind |-> kind, url |-> "/values?path=", path |-> path,
     reference |-> reference]

\* The callback of evaluate(): callback(this.parseVariable(path, v)).
evaluateCallback(st, req, response) ==
    LET r == parseVariable(Str(req.path), response, st.variableReferences)
        st2 == [st EXCEPT !.variableReferences = r.table]
    IN IF r.threw THEN NotCalled(throw(st2))
       ELSE Called(st2, IF r.def THEN r.var ELSE Absent)

\* The callback variables() passes to evaluate() for a reference in the
\* table: callback(v && v.values ? v.values : []).
childrenCallback(st, req, response) ==
    LET e == evaluateCallback(st, req, response) IN
    IF ~e.called THEN e
    ELSE Called(e.st, IF e.value.k # "absent" /\ e.value.values.k = "list"
                      THEN e.value.values.items ELSE <<>>)

\* ----------------------------------------------------------------------
\* The inputs of the front end and the answers of the remote debuggee
\* ----------------------------------------------------------------------
Leaf(n) == Obj(Str(n), Str("int"), Str("1"), Absent)

Node(n, children) == Obj(Str(n), Str("struct"), Str("{}"), List(children))

\* an entry without a type, and an entry without a name
NoType(n) == Obj(Str(n), Undefined, Str("1"), Absent)

NoName == Obj(Undefined, Str("int"), Str("1"), Absent)

\* The answers to /values: { values: [...] }, {} and null.
ValuesPayloads ==
    {Obj(Undefined, Undefined, Undefined, List(items)) : items \in
        {<<>>,
         <<Leaf("a"), Leaf("b")>>,
         <<Node("a", <<Leaf("b")>>), Node("b", <<Leaf("c")>>)>>,
         <<Node("b", <<Leaf("c")>>), Node("a", <<Leaf("b")>>)>>,
         <<Node("a", <<Node("b", <<Leaf("d")>>)>>), Node("b", <<Leaf("c")>>)>>,
         <<NoType("m"), Node("a", <<Node("b", <<>>)>>)>>,
         <<NoName, Leaf("a")>>,
         <<JNull>>}}
        \cup {Obj(Undefined, Undefined, Undefined, Absent), JNull}

\* The answers to /values?path=p: a node with children, a leaf, a node
\* whose child list is empty, a malformed node, and null.
EvaluatePayloads ==
    {Node("a", <<Leaf("b"), Node("c", <<Leaf("d")>>)>>), Node("b", <<Leaf("c")>>),
     Leaf("a"), Node("a", <<>>), NoType("a"), JNull}

EvaluatePaths == {"a", "b", "a.b"}

\* The windows of the root listing the front end asks for.
PageStarts == {0, 1}

PageCounts == {1}

GoodFrame(n) == Frame(Str(n), Str("src/a"), Num(1), Num(2))

BadFrame == Frame(Str("bad"), Str("src/a"), Str("1"), Num(2))

StackPayloads ==
    {List(items) : items \in
        {<<>>, <<GoodFrame("f"), GoodFrame("g"), GoodFrame("h")>>,
         <<GoodFrame("f"), BadFrame, GoodFrame("g")>>, <<JNull>>}}
        \cup {JNull}

StartFrames == {-1, 0, 1, 3}

FrameCounts == {1, 2}

BreakpointsPayloads ==
    {BreakpointsObj(Str("src/a"), List(<<Num(3)>>)),
     BreakpointsObj(Str("src/b"), List(<<Num(5), Str("x"), Num(3)>>)),
     BreakpointsObj(Str("src/a"), Absent),
     BreakpointsObj(Undefined, List(<<Num(3)>>)),
     JNull}

\* "src\a.cf" and "a.b/c" as their characters
Uris == {<<"s", "r", "c", "\\", "a", ".", "c", "f">>, <<"a", ".", "b", "/", "c">>}

\* Every string of at most MaxUriLen characters over a backslash, a dot
\* and a word character.
UriChars == {"\\", ".", "a"}

UriStrings == UNION {[1 .. n -> UriChars] : n \in 0 .. MaxUriLen}

LineSets == {<<>>, <<3, 5>>}

SourcePayloads == {JString("fn main"), JNull}

SourcesPayloads == {List(<<JString("src/a")>>), JNull}

\* ----------------------------------------------------------------------
\* Actions
\* ----------------------------------------------------------------------
Init ==
    /\ pollTimeout = "inactive"
    /\ orphanTimers = 0
    /\ inflight = EmptyBag
    /\ immediates = <<>>
    /\ emitted = [e \in Events |-> 0]
    /\ variableReferences = <<>>
    /\ nCommands = 0
    /\ lastCmd = "none"
    /\ nData = 0
    /\ nCallbacks = 0
    /\ result = [op |-> "none"]
    /\ fired = 0
    /\ failed = FALSE
    /\ lastSent = "none"
    /\ thrown = FALSE
    /\ remote = "Running"

\* The program state after a callback or call that ends in state st.
Becomes(st) ==
    /\ pollTimeout' = st.pollTimeout
    /\ orphanTimers' = st.orphanTimers
    /\ inflight' = st.inflight
    /\ immediates' = st.immediates
    /\ variableReferences' = st.variableReferences
    /\ failed' = st.failed
    /\ lastSent' = st.lastSent
    /\ thrown' = st.thrown

\* The event loop runs the setImmediate callbacks of a callback (check
\* phase) before the next I/O or timer callback.  A run in which several
\* I/O callbacks share one poll phase differs only in when the emits happen:
\* no callback reads the queue or the emit counts.
Idle == immediates = <<>>

\* A control call of the front end.
Command(name, st) ==
    /\ Idle
    /\ nCommands < MaxCommands
    /\ Becomes(st)
    /\ nCommands' = nCommands + 1
    /\ lastCmd' = name
    /\ UNCHANGED << remote, emitted, nData, nCallbacks, result, fired >>

CallStart == Command("start", start(Cur))

CallStop == Command("stop", stop(Cur))

CallContinue == Command("continue", continue(Cur))

CallStep == Command("step", step(Cur))

CallPause == Command("pause", pause(Cur))

\* A poll timer expires: the callback of setTimeout calls pollExecution.
TimerFires ==
    /\ Idle
    /\ fired < MaxPolls
    /\ \/ /\ pollTimeout = "armed"
          /\ Becomes(pollExecution([Cur EXCEPT !.pollTimeout = "inactive"]))
       \/ /\ orphanTimers > 0
          /\ Becomes(pollExecution([Cur EXCEPT !.orphanTimers = @ - 1]))
    /\ fired' = fired + 1
    /\ UNCHANGED << remote, emitted, nCommands, lastCmd, nData, nCallbacks, result >>

\* The event loop runs the oldest setImmediate callback: this.emit(event).
Emit ==
    /\ immediates # <<>>
    /\ emitted' = [emitted EXCEPT ![Head(immediates)] = @ + 1]
    /\ immediates' = Tail(immediates)
    /\ UNCHANGED << remote, pollTimeout, orphanTimers, inflight, variableReferences,
                    nCommands, lastCmd, nData, nCallbacks, result, fired,
                    failed, lastSent, thrown >>

pollDelivered(st, req, response) == NotCalled(pollCallback(st, response))

commandDelivered(st, req, response) == NotCalled(handleExecution(st, response))

\* The callback that the method that sent req passed to request().
Callback(st, req, response) ==
    CASE req.kind = "poll" -> pollDelivered(st, req, response)
      [] req.kind \in {"continue", "step", "pause"} ->
             commandDelivered(st, req, response)
      [] req.kind = "stackTrace" -> stackTraceCallback(st, req, response)
      [] req.kind = "sources" -> sourcesCallback(st, req, response)
      [] req.kind = "source" -> sourceCallback(st, req, response)
      [] req.kind = "setBreakPoints" -> setBreakPointsCallback(st, req, response)
      [] req.kind = "values" -> valuesCallback(st, req, response)
      [] req.kind = "evaluate" -> evaluateCallback(st, req, response)
      [] req.kind = "children" -> childrenCallback(st, req, response)

\* The transport calls back for request req with resp: the callback that
\* request() gave to HttpRequest.get runs, and in it the method's callback.
Deliver(req, resp) ==
    LET st == [Cur EXCEPT !.inflight = @ (-) SetToBag({req})]
        branch == RequestBranch(resp)
        outcome == IF branch = "callback"
                   THEN Callback(st, req, RequestValue(resp))
                   ELSE IF branch = "stop" THEN NotCalled(requestFailed(st))
                   ELSE IF branch = "throw" THEN NotCalled(throw(st))
                   ELSE NotCalled(st)
    IN /\ Idle
       /\ BagIn(req, inflight)
       /\ \E out \in {outcome} :
              /\ Becomes(out.st)
              /\ nCallbacks' = IF out.called THEN nCallbacks + 1 ELSE nCallbacks
              /\ result' = IF out.called
                           THEN [op |-> req.kind, req |-> req, value |-> out.value,
                                        response |-> resp]
                           ELSE result
       /\ UNCHANGED << remote, emitted, nCommands, lastCmd, nData, fired >>

PollResponse ==
    \E resp \in Responses(ExecPayloads) :
        Deliver(PollReq, resp)

CommandResponse ==
    \E req \in CommandReqs, resp \in Responses(ExecPayloads) :
        Deliver(req, resp)

\* A data call of the front end that sends a request.
DataCall(req) ==
    /\ Idle
    /\ nData < MaxDataCalls
    /\ nData' = nData + 1
    /\ Becomes(request(Cur, req))
    /\ UNCHANGED << remote, emitted, nCommands, lastCmd, nCallbacks, result, fired >>

CallStackTrace ==
    \E startFrame \in StartFrames, frameCount \in FrameCounts :
        DataCall(StackTraceReq(startFrame, frameCount))

CallSources == DataCall(SourcesReq)

CallSource == \E uri \in Uris : DataCall(SourceReq(uri))

\* The first data call of a session is source(uri) with any uri.
CallSourceAny ==
    \E uri \in UriStrings : nData = 0 /\ DataCall(SourceReq(uri))

\* The first data call of a session is setBreakPoints(path, lines) with
\* any path.
CallSetBreakPointsAny ==
    \E path \in UriStrings, lines \in LineSets :
        nData = 0 /\ DataCall(SetBreakPointsReq(path, lines))

CallSetBreakPoints ==
    \E path \in Uris, lines \in LineSets : DataCall(SetBreakPointsReq(path, lines))

CallEvaluate ==
    \E path \in EvaluatePaths : DataCall(EvaluateReq("evaluate", path, 0))

\* variables(reference): the root listing for reference <= 0, evaluate of
\* the path of a reference in the table, else callback([]) at once.
CallVariables ==
    \E reference \in -1 .. (Len(variableReferences) + 1) :
        IF reference > 0 /\ reference > Len(variableReferences)
        THEN /\ Idle
             /\ nData < MaxDataCalls
             /\ nData' = nData + 1
             /\ nCallbacks' = nCallbacks + 1
             /\ result' = [op |-> "children",
                           req |-> EvaluateReq("children", "", reference),
                           value |-> <<>>]
             /\ UNCHANGED << remote, pollTimeout, orphanTimers, inflight, immediates,
                             emitted, variableReferences, nCommands, lastCmd,
                             fired, failed, lastSent, thrown >>
        ELSE IF reference > 0
        THEN DataCall(EvaluateReq("children",
                                  variableReferences[reference], reference))
        ELSE \E first \in PageStarts, count \in PageCounts :
                 DataCall(ValuesReq(reference, first, count))

DataResponse(kind, payloads) ==
    \E req \in BagToSet(inflight), resp \in Responses(payloads) :
        /\ req.kind = kind
        /\ Deliver(req, resp)

StackTraceResponse == DataResponse("stackTrace", StackPayloads)

SourcesResponse == DataResponse("sources", SourcesPayloads)

SourceResponse == DataResponse("source", SourcePayloads)

SetBreakPointsResponse ==
    DataResponse("setBreakPoints", BreakpointsPayloads)

ValuesResponse == DataResponse("values", ValuesPayloads)

EvaluateResponse == DataResponse("evaluate", EvaluatePayloads)

ChildrenResponse == DataResponse("children", EvaluatePayloads)

Next ==
    \/ CallStart
    \/ CallStop
    \/ CallContinue
    \/ CallStep
    \/ CallPause
    \/ TimerFires
    \/ Emit
    \/ PollResponse
    \/ CommandResponse
    \/ CallStackTrace
    \/ CallSources
    \/ CallSource
    \/ CallSetBreakPoints
    \/ CallEvaluate
    \/ CallVariables
    \/ StackTraceResponse
    \/ SourcesResponse
    \/ SourceResponse
    \/ SetBreakPointsResponse
    \/ ValuesResponse
    \/ EvaluateResponse
    \/ ChildrenResponse
    \/ CallSourceAny
    \/ CallSetBreakPointsAny

Spec == Init /\ [][Next]_vars

\* The execution controller alone: control calls, the poll loop, events.
NextControl ==
    \/ CallStart
    \/ CallStop
    \/ CallContinue
    \/ CallStep
    \/ CallPause
    \/ TimerFires
    \/ Emit
    \/ PollResponse
    \/ CommandResponse

SpecControl == Init /\ [][NextControl]_vars

\* The data methods alone: stack, breakpoints, sources, variables.
NextData ==
    \/ Emit
    \/ CallStackTrace
    \/ CallSources
    \/ CallSource
    \/ CallSetBreakPoints
    \/ CallEvaluate
    \/ CallVariables
    \/ StackTraceResponse
    \/ SourcesResponse
    \/ SourceResponse
    \/ SetBreakPointsResponse
    \/ ValuesResponse
    \/ EvaluateResponse
    \/ ChildrenResponse

SpecData == Init /\ [][NextData]_vars

\* source and setBreakPoints alone, called with any uri.
NextUri ==
    \/ Emit
    \/ CallSourceAny
    \/ CallSetBreakPointsAny
    \/ SourceResponse
    \/ SetBreakPointsResponse

SpecUri == Init /\ [][NextUri]_vars

\* The control sessions the front end drives: launchRequest calls start()
\* before any other control call can arrive.
Started == nCommands >= 1

StartedCommand ==
    /\ Started
    /\ (CallStop \/ CallContinue \/ CallStep \/ CallPause)

NextStarted ==
    \/ CallStart
    \/ StartedCommand
    \/ TimerFires
    \/ Emit
    \/ PollResponse
    \/ CommandResponse

SpecStarted == Init /\ [][NextStarted]_vars

ExecBody(e) == Body("application/json", TRUE, [k |-> "obj", execution |-> e])

\* The debuggee changes its execution state on its own account.
RemoteMoves ==
    /\ \E execution \in ExecutionStates \ {remote} : remote' = execution
    /\ UNCHANGED << pollTimeout, orphanTimers, inflight, immediates, emitted,
                    variableReferences, nCommands, lastCmd, nData, nCallbacks,
                    result, fired, failed, lastSent, thrown >>

\* The transport hands over the answer to req: the JSON body that reports
\* the execution state the debuggee is in.
Answer(req) == Deliver(req, ExecBody(Str(remote)))

LiveResponse == \E req \in {PollReq} \cup CommandReqs : Answer(req)

ResumeCommand ==
    /\ Started
    /\ (CallContinue \/ CallStep)

NextLive ==
    \/ CallStart
    \/ ResumeCommand
    \/ TimerFires
    \/ Emit
    \/ LiveResponse
    \/ RemoteMoves

\* Every armed timer fires, every queued event is emitted, and every
\* request is answered.
SpecLive ==
    /\ Init
    /\ [][NextLive]_vars
    /\ WF_vars(TimerFires)
    /\ WF_vars(Emit)
    /\ \A req \in {PollReq} \cup CommandReqs : WF_vars(Answer(req))

\* A session that mixes control calls with evaluate, stackTrace, source
\* and setBreakPoints, each data method called with one argument list.
SessionBudget == nCommands + nData < MaxSessionCalls

SessionUri == <<"s", "r", "c", "\\", "a", ".", "c", "f">>

SessionCommand ==
    /\ SessionBudget
    /\ (CallStart \/ CallStop \/ CallContinue \/ CallStep \/ CallPause)

SessionDataCall ==
    /\ SessionBudget
    /\ \/ DataCall(EvaluateReq("evaluate", "a", 0))
       \/ DataCall(StackTraceReq(0, 1))
       \/ DataCall(SourceReq(SessionUri))
       \/ DataCall(SetBreakPointsReq(SessionUri, <<3, 5>>))

NextSession ==
    \/ SessionCommand
    \/ SessionDataCall
    \/ TimerFires
    \/ Emit
    \/ PollResponse
    \/ CommandResponse
    \/ EvaluateResponse
    \/ StackTraceResponse
    \/ SourceResponse
    \/ SetBreakPointsResponse

SpecSession == Init /\ [][NextSession]_vars

\* ----------------------------------------------------------------------
\* Observations used by the properties
\* ----------------------------------------------------------------------
\* The number of sendEvent(event) calls made: emitted or awaiting the emit.
Sent(event) ==
    emitted[event]
        + Cardinality({i \in 1 .. Len(immediates) : immediates[i] = event})

Timers == ArmedTimers(Cur)

PollsInFlight == CopiesIn(PollReq, inflight)

\* start() was called once and no other control call was made.
OneLoop == nCommands = 1 /\ lastCmd = "start"

\* The step is the delivery of resp to a poll request.
PollDelivers(resp) == Deliver(PollReq, resp)

\* The poll responses that reach the poll callback and name no paused state.
NonPausedResponses ==
    {ExecBody(Str("Running")), ExecBody(Undefined),
     Body("text/plain", FALSE, JText)}

\* ----------------------------------------------------------------------
\* Properties
\* ----------------------------------------------------------------------
\* What holds of a lone poll loop in every state: at most one poll is
\* pending, and once stopOnBreakpoint or stopOnStep was sent it was sent
\* once, no timer is armed and no poll request is in flight.
LonePollLoopState ==
    OneLoop =>
        /\ Timers + PollsInFlight <= 1
        /\ Sent("stopOnBreakpoint") + Sent("stopOnStep") <= 1
        /\ Sent("stopOnBreakpoint") + Sent("stopOnStep") = 1
               => Timers = 0 /\ PollsInFlight = 0

\* C1: with start() the only control call, every non-paused poll response
\* arms the poll timer exactly once and nothing else arms it (n responses,
\* n arms); a BreakpointPaused (StepPaused) poll response sends
\* stopOnBreakpoint (stopOnStep) once and arms nothing; and once that event
\* was sent, no timer is armed and no poll request is in flight, ever.
C1_PollLoopStopsOnPause ==
    [][(OneLoop /\ nCommands' = nCommands) =>
          /\ \A resp \in NonPausedResponses :
                 PollDelivers(resp) =>
                     /\ Timers' = Timers + 1
                     /\ \A e \in Events : Sent(e)' = Sent(e)
          /\ Timers' > Timers =>
                 \E resp \in NonPausedResponses : PollDelivers(resp)
          /\ PollDelivers(ExecBody(Str("BreakpointPaused"))) =>
                 /\ Sent("stopOnBreakpoint")' = Sent("stopOnBreakpoint") + 1
                 /\ Sent("stopOnStep")' = Sent("stopOnStep")
                 /\ Timers' = 0 /\ PollsInFlight' = 0
          /\ PollDelivers(ExecBody(Str("StepPaused"))) =>
                 /\ Sent("stopOnStep")' = Sent("stopOnStep") + 1
                 /\ Sent("stopOnBreakpoint")' = Sent("stopOnBreakpoint")
                 /\ Timers' = 0 /\ PollsInFlight' = 0
          /\ LonePollLoopState'
      ]_vars

\* C1 witness: Running, Running, BreakpointPaused - two timers were armed
\* and fired, stopOnBreakpoint was sent once, and the loop is at rest.
C1_Witness ==
    /\ OneLoop
    /\ fired = 2
    /\ Sent("stopOnBreakpoint") = 1
    /\ Timers = 0
    /\ PollsInFlight = 0

\* C2: a poll response that reports ExternalPaused sends stopOnPause and
\* arms no poll timer.
C2_PollReportsExternalPause ==
    [][PollDelivers(ExecBody(Str("ExternalPaused"))) =>
          /\ Sent("stopOnPause")' = Sent("stopOnPause") + 1
          /\ Timers' <= Timers
      ]_vars

\* C3: once a request has failed at the transport level, the one 'end'
\* event it caused stays the only one and no poll timer is armed, whatever
\* the other requests in flight are answered with.
C3_OneEndAfterFailure ==
    [][(failed /\ nCommands' = nCommands) =>
          /\ Sent("end")' = Sent("end")
          /\ Timers' <= Timers
      ]_vars

\* C4: after stop(), until the next control call, a response sends no
\* stopOnPause/stopOnBreakpoint/stopOnStep event and arms no poll timer,
\* and no poll request is issued.
C4_NoEffectAfterStop ==
    [][(lastCmd = "stop" /\ nCommands' = nCommands) =>
          /\ \A e \in StopEvents : Sent(e)' = Sent(e)
          /\ Timers' <= Timers
          /\ PollsInFlight' <= PollsInFlight
      ]_vars

\* C5: at most one poll timer is armed.
C5_AtMostOneTimer == Timers <= 1

\* The step is the delivery of resp to some request in flight.
Delivers(resp) == \E req \in BagToSet(inflight) : Deliver(req, resp)

\* The transport failures: an error of the transport, and a body that
\* JSON.parse rejects.
TransportFailures == {TransportError, Body("application/json", FALSE, JText)}

\* C9: every transport failure seen in a request callback leaves no poll
\* timer armed, sends the 'end' event, and issues no request.
C9_FailureTerminates ==
    [][\A resp \in TransportFailures :
           Delivers(resp) =>
               /\ Timers' = 0
               /\ Sent("end")' = Sent("end") + 1
               /\ BagCardinality(inflight') < BagCardinality(inflight)
      ]_vars

\* C10: a stop() that follows a stop() changes neither the timers nor the
\* events sent: the session is as after the first call.
C10_StopIdempotent ==
    [][(lastCmd = "stop" /\ lastCmd' = "stop" /\ nCommands' = nCommands + 1) =>
          /\ \A e \in Events : Sent(e)' = Sent(e)
          /\ Timers' = Timers
          /\ inflight' = inflight
      ]_vars

Range(seq) == {seq[i] : i \in 1 .. Len(seq)}

\* The answers the remote gives to a request of each kind.
PayloadsOf(kind) ==
    CASE kind = "stackTrace" -> StackPayloads
      [] kind = "sources" -> SourcesPayloads
      [] kind = "source" -> SourcePayloads
      [] kind = "setBreakPoints" -> BreakpointsPayloads
      [] kind = "values" -> ValuesPayloads
      [] kind \in {"evaluate", "children"} -> EvaluatePayloads
      [] OTHER -> ExecPayloads

IsPrefix(s, t) == Len(s) <= Len(t) /\ SubSeq(t, 1, Len(s)) = s

\* No path is in the table twice.
NoPathTwice(table) ==
    \A i, j \in 1 .. Len(table) : table[i] = table[j] => i = j

\* The node evaluate(path) last handed to its caller has children and so
\* carries a reference.
EvaluatedWithReference ==
    /\ result.op = "evaluate"
    /\ result.value.k = "var"
    /\ result.value.reference # 0

\* C6: the reference table holds no path twice; a fetch leaves the entries
\* it found where they are, so a path keeps its reference; the reference
\* evaluate(path) returns for a node with children is the index of path in
\* the table; and evaluate of the path evaluated before returns the
\* reference returned before.
C6_ReferenceStability ==
    [][/\ NoPathTwice(variableReferences')
       /\ IsPrefix(variableReferences, variableReferences')
       /\ EvaluatedWithReference' =>
              /\ result'.value.reference \in 1 .. Len(variableReferences')
              /\ variableReferences'[result'.value.reference] = result'.req.path
       /\ (/\ EvaluatedWithReference
           /\ EvaluatedWithReference'
           /\ result'.req.path = result.req.path)
              => result'.value.reference = result.value.reference
      ]_vars

\* C6 witness: the root listing registered "a" and "a.b"; evaluate("a")
\* then found "a" again and returned its reference 1, appending nothing.
C6_Witness ==
    /\ nData = 2
    /\ nCallbacks = 2
    /\ EvaluatedWithReference
    /\ result.req.path = "a"
    /\ result.value.reference = 1
    /\ variableReferences = <<"a", "a.b">>

\* C7: variables(reference) hands its caller the empty sequence when the
\* reference is above the table length or negative.
C7_UnknownReferenceEmpty ==
    (/\ result.op \in {"children", "values"}
     /\ \/ result.req.reference > Len(variableReferences)
        \/ result.req.reference < 0)
        => result.value = <<>>

\* The data methods the caller-callback contract is stated for.
CallbackKinds ==
    {"stackTrace", "setBreakPoints", "source", "values", "children", "evaluate"}

\* C8: whatever the transport delivers to a request of stackTrace,
\* setBreakPoints, source, variables or evaluate, the caller's callback is
\* invoked once and no exception escapes.
C8_CallbackAlwaysInvoked ==
    [][\A req \in BagToSet(inflight) :
           \A resp \in Responses(PayloadsOf(req.kind)) :
               (req.kind \in CallbackKinds /\ Deliver(req, resp)) =>
                   /\ nCallbacks' = nCallbacks + 1
                   /\ thrown' = thrown
      ]_vars

\* The entries of a remote list that are numbers, in remote order.
ReportedLines(items) ==
    LET numbers == SelectSeq(items, LAMBDA x : x.t = "number")
    IN [i \in 1 .. Len(numbers) |-> numbers[i].s]

\* C11: setBreakPoints hands its caller the sourceUri the remote reports
\* and the numeric entries of the remote 'breakpoints' list in remote
\* order, so no line the remote did not report; when the answer carries no
\* string sourceUri it hands over the normalized path and no line.
C11_BreakpointsAsReported ==
    [][\A req \in BagToSet(inflight) :
           req.kind = "setBreakPoints" =>
               /\ \A p \in BreakpointsPayloads :
                      (/\ p.k = "obj"
                       /\ Deliver(req, Body("application/json", TRUE, p))) =>
                          IF p.sourceUri.t = "string"
                          THEN p.breakpoints.k = "list" =>
                                 /\ result'.op = "setBreakPoints"
                                 /\ result'.req = req
                                 /\ result'.value.uri = Chars(p.sourceUri.s)
                                 /\ result'.value.lines =
                                        ReportedLines(p.breakpoints.items)
                                 /\ \A i \in 1 .. Len(req.lines) :
                                        (\E j \in 1 .. Len(result'.value.lines) :
                                             result'.value.lines[j]
                                                 = ToString(req.lines[i]))
                                          => Num(req.lines[i])
                                                 \in Range(p.breakpoints.items)
                          ELSE /\ result'.req = req
                               /\ result'.value = [uri |-> req.path, lines |-> <<>>]
               /\ Deliver(req, Body("text/plain", FALSE, JText)) =>
                      /\ result'.req = req
                      /\ result'.value = [uri |-> req.path, lines |-> <<>>]
      ]_vars

\* C11 witness: lines 3 and 5 were requested for "a.b/c"; the remote
\* reported "src/a" and line 3 only, and that is what the caller received.
C11_Witness ==
    /\ result.op = "setBreakPoints"
    /\ result.req.path = <<"a", ".", "b", "/", "c">>
    /\ result.req.lines = <<3, 5>>
    /\ result.value = [uri |-> Chars("src/a"), lines |-> <<"3">>]
    /\ result.value.uri # result.req.path

\* The frames of a remote stack that stackTrace translates, in remote order.
WellFormedFrames(items) ==
    SelectSeq(items, LAMBDA f :
        /\ f.k = "obj"
        /\ f.name.t = "string"
        /\ f.sourceUri.t = "string"
        /\ f.line.t = "number"
        /\ f.column.t = "number")

\* The remote stacks without a null entry.
RemoteStacks ==
    {p \in StackPayloads :
        p.k = "list" /\ \A i \in 1 .. Len(p.items) : p.items[i].k # "null"}

\* C12: stackTrace(startFrame, frameCount) with startFrame >= 0 hands its
\* caller the translated frames at positions startFrame ..
\* startFrame + frameCount - 1 in remote order, each with index equal to
\* its position among the translated frames, and the empty page when
\* startFrame is at or beyond their number.
C12_StackWindow ==
    [][\A req \in BagToSet(inflight) :
           (req.kind = "stackTrace" /\ req.startFrame >= 0) =>
               \A p \in RemoteStacks :
                   Deliver(req, Body("application/json", TRUE, p)) =>
                       LET frames == WellFormedFrames(p.items)
                           page == result'.value
                           n == Len(frames) - req.startFrame
                       IN /\ result'.req = req
                          /\ Len(page) = IF n <= 0 THEN 0
                                         ELSE IF n < req.frameCount THEN n
                                         ELSE req.frameCount
                          /\ \A i \in 1 .. Len(page) :
                                 /\ page[i].index = req.startFrame + i - 1
                                 /\ page[i].name = frames[req.startFrame + i].name.s
                                 /\ page[i].sourceUri
                                        = frames[req.startFrame + i].sourceUri.s
                                 /\ page[i].line = frames[req.startFrame + i].line.s
                                 /\ page[i].column
                                        = frames[req.startFrame + i].column.s
      ]_vars

\* C12 witness: of the remote stack f, (malformed), g the window (1, 2)
\* is the one frame g, with index 1.
C12_Witness ==
    /\ result.op = "stackTrace"
    /\ result.req.startFrame = 1
    /\ result.req.frameCount = 2
    /\ Len(result.value) = 1
    /\ result.value[1].index = 1
    /\ result.value[1].name = "g"

\* A remote variable entry with a string name, type and value.
WellFormed(v) ==
    v.k = "obj" /\ v.name.t = "string" /\ v.type.t = "string" /\ v.value.t = "string"

RECURSIVE NodesWithChildren(_)
\* The number of well-formed entries with a child list in a remote list,
\* the descendants of well-formed entries included: each may be given a
\* reference.
NodesWithChildren(items) ==
    IF items = <<>> THEN 0
    ELSE (IF WellFormed(Head(items)) /\ Head(items).values.k = "list"
          THEN 1 + NodesWithChildren(Head(items).values.items)
          ELSE 0)
             + NodesWithChildren(Tail(items))

\* The answers to /values with a list of entries, none of them null.
RemoteVariableLists ==
    {p \in ValuesPayloads :
        /\ p.k = "obj"
        /\ p.values.k = "list"
        /\ \A i \in 1 .. Len(p.values.items) : p.values.items[i].k = "obj"}

\* C13: of every remote variable list the root listing returns the
\* well-formed entries in their remote order, leaving out each entry that
\* lacks a string name, type or value, and appends no reference for a
\* left-out entry or its descendants.
C13_MalformedDroppedSiblingsKept ==
    [][\A req \in BagToSet(inflight) :
           req.kind = "values" =>
               \A p \in RemoteVariableLists :
                   Deliver(req, Body("application/json", TRUE, p)) =>
                       LET kept == SelectSeq(p.values.items, WellFormed) IN
                       /\ nCallbacks' = nCallbacks + 1
                       /\ result'.req = req
                       /\ Len(result'.value) = Len(kept)
                       /\ \A i \in 1 .. Len(kept) :
                              /\ result'.value[i].name = kept[i].name.s
                              /\ result'.value[i].type = kept[i].type.s
                              /\ result'.value[i].value = kept[i].value.s
                       /\ Len(variableReferences')
                              <= Len(variableReferences)
                                     + NodesWithChildren(p.values.items)
      ]_vars

\* The answers to /values whose entries are all well-formed.
WellFormedLists ==
    {p \in RemoteVariableLists :
        \A i \in 1 .. Len(p.values.items) : WellFormed(p.values.items[i])}

\* C14: the root listing hands its caller the requested page: the entries
\* start .. start + count - 1 of the parsed top-level variables.
C14_RootListingPage ==
    [][\A req \in BagToSet(inflight) :
           req.kind = "values" =>
               \A p \in WellFormedLists :
                   Deliver(req, Body("application/json", TRUE, p)) =>
                       LET top == p.values.items
                           last == IF req.start + req.count < Len(top)
                                   THEN req.start + req.count ELSE Len(top)
                           page == SubSeq(top, req.start + 1, last)
                       IN /\ result'.req = req
                          /\ Len(result'.value) = Len(page)
                          /\ \A i \in 1 .. Len(page) :
                                 result'.value[i].name = page[i].name.s
      ]_vars

\* The string content a transport answer carries, if any: a text body, or
\* a JSON body that is a string.
StringContent(resp) ==
    IF resp.err THEN Absent
    ELSE IF resp.contentType = "text/plain" THEN resp.val
    ELSE IF resp.contentType = "application/json" /\ resp.parses
              /\ resp.val.k = "string"
    THEN resp.val
    ELSE Absent

\* C15: source(uri) hands its caller the fetched content when the answer
\* carries a string, and the single blank line "\n" on every other
\* answer, a transport failure included.
C15_SourceAlwaysRenderable ==
    [][\A req \in BagToSet(inflight) :
           req.kind = "source" =>
               \A resp \in Responses(SourcePayloads) :
                   Deliver(req, resp) =>
                       /\ nCallbacks' = nCallbacks + 1
                       /\ result'.req = req
                       /\ result'.value = IF StringContent(resp).k = "string"
                                          THEN StringContent(resp).s
                                          ELSE "\n"
      ]_vars

RECURSIVE DottedPaths(_, _)
\* The dotted paths (ancestors' names, then the own name) of the
\* well-formed entries with a child list among items and below them;
\* prefix is the dotted path of the parent, "" at the top level.
DottedPaths(prefix, items) ==
    IF items = <<>> THEN {}
    ELSE LET v == Head(items)
             own == IF prefix = "" THEN v.name.s ELSE prefix \o "." \o v.name.s
         IN (IF WellFormed(v) /\ v.values.k = "list"
             THEN {own} \cup DottedPaths(own, v.values.items)
             ELSE {})
                \cup DottedPaths(prefix, Tail(items))

\* C16: after a root listing every node with children is registered under
\* its dotted path, whatever siblings precede it, and the reference a
\* top-level node is returned with is the one of its name.
C16_PathIsAncestorChain ==
    [][\A req \in BagToSet(inflight) :
           req.kind = "values" =>
               \A p \in WellFormedLists :
                   Deliver(req, Body("application/json", TRUE, p)) =>
                       /\ DottedPaths("", p.values.items)
                              \subseteq Range(variableReferences')
                       /\ \A i \in 1 .. Len(result'.value) :
                              result'.value[i].reference # 0 =>
                                  variableReferences'[result'.value[i].reference]
                                      = result'.value[i].name
      ]_vars

\* One control call was made and a pause was detected since: a stop event
\* was sent.
PauseDetected ==
    /\ nCommands = 1
    /\ \E e \in StopEvents : Sent(e) > 0

\* C17: once a pause was detected no poll timer is armed and no poll
\* request is issued until the next control call, whatever response
\* arrives meanwhile.
C17_NoPollingAfterPause ==
    [][(PauseDetected /\ nCommands' = nCommands) =>
          /\ Timers' <= Timers
          /\ PollsInFlight' <= PollsInFlight
      ]_vars

\* The stop event that reports a paused state of the remote.
StopEventOf(execution) ==
    CASE execution = "ExternalPaused" -> "stopOnPause"
      [] execution = "BreakpointPaused" -> "stopOnBreakpoint"
      [] execution = "StepPaused" -> "stopOnStep"

\* C18: after one continue() or step(), a response that reports a pause
\* for which the stop event was already sent sends no second one.
C18_OneStopEventPerPause ==
    [][\A execution \in ExecutionStates \ {"Running"} :
           (/\ nCommands = 1
            /\ lastCmd \in {"continue", "step"}
            /\ Sent(StopEventOf(execution)) = 1
            /\ Delivers(ExecBody(Str(execution)))) =>
               \A e \in StopEvents : Sent(e)' = Sent(e)
      ]_vars

\* The step is a call of the control method name.
Calls(name) == nCommands' = nCommands + 1 /\ lastCmd' = name

\* C19: a call of continue() or step() is one step that sends the command
\* request, then a poll request, and leaves this._pollTimeout naming no
\* armed timer; it sends no event and touches no other timer.
C19_ContinueStepRestartPolling ==
    [][\A req \in {ContinueReq, StepReq} :
           Calls(req.kind) =>
               /\ inflight' = inflight (+) SetToBag({req}) (+) SetToBag({PollReq})
               /\ lastSent' = "poll"
               /\ pollTimeout' = "inactive"
               /\ orphanTimers' = orphanTimers
               /\ \A e \in Events : Sent(e)' = Sent(e)
      ]_vars

\* C19 witness: continue() was the second control call, made when no
\* request was in flight: its command request and its poll request are in
\* flight, the poll request sent last, and no timer is armed.
C19_Witness ==
    /\ nCommands = 2
    /\ lastCmd = "continue"
    /\ fired = 0
    /\ inflight = SetToBag({ContinueReq, PollReq})
    /\ lastSent = "poll"
    /\ Timers = 0

\* C20: a call of pause() is one step that sends one pause request and no
\* poll request, and leaves this._pollTimeout naming no armed timer.
C20_PauseSendsOnlyPause ==
    [][Calls("pause") =>
          /\ inflight' = inflight (+) SetToBag({PauseReq})
          /\ lastSent' = "pause"
          /\ pollTimeout' = "inactive"
          /\ orphanTimers' = orphanTimers
          /\ \A e \in Events : Sent(e)' = Sent(e)
      ]_vars

\* C20 witness: pause() was the second control call, made when no request
\* was in flight: only the pause request is in flight, and no timer is
\* armed.
C20_Witness ==
    /\ nCommands = 2
    /\ lastCmd = "pause"
    /\ fired = 0
    /\ inflight = SetToBag({PauseReq})
    /\ lastSent = "pause"
    /\ Timers = 0

\* The command responses that reach handleExecution and name no paused
\* state.
OtherCommandResponses ==
    {ExecBody(Str("Running")), ExecBody(Undefined),
     Body("text/plain", FALSE, JText)}

\* C21: the response to a continue, step or pause request that names a
\* paused state sends the matching stop event, and no other, and leaves
\* this._pollTimeout naming no armed timer; a response that names any other
\* state sends no event and leaves the timers as they are.
C21_CommandResponseHandled ==
    [][\A req \in {r \in CommandReqs : CopiesIn(r, inflight') < CopiesIn(r, inflight)} :
           /\ \A execution \in ExecutionStates \ {"Running"} :
                  Deliver(req, ExecBody(Str(execution))) =>
                      /\ \A e \in Events :
                             Sent(e)' = IF e = StopEventOf(execution)
                                        THEN Sent(e) + 1 ELSE Sent(e)
                      /\ pollTimeout' = "inactive"
                      /\ orphanTimers' = orphanTimers
           /\ \A resp \in OtherCommandResponses :
                  Deliver(req, resp) =>
                      /\ \A e \in Events : Sent(e)' = Sent(e)
                      /\ pollTimeout' = pollTimeout
                      /\ orphanTimers' = orphanTimers
      ]_vars

\* C21 witness: after continue() alone both its requests were answered,
\* the command request with ExternalPaused: stopOnPause was sent once and
\* no timer is armed.
C21_Witness ==
    /\ nCommands = 1
    /\ lastCmd = "continue"
    /\ inflight = EmptyBag
    /\ Sent("stopOnPause") = 1
    /\ Sent("stopOnBreakpoint") = 0
    /\ Sent("stopOnStep") = 0
    /\ Timers = 0

\* C22: the reference table is append-only: every step leaves the entries
\* it had where they were, so a reference resolves to the same path for
\* the rest of the session.
C22_TableAppendOnly ==
    [][/\ Len(variableReferences) <= Len(variableReferences')
       /\ \A reference \in 1 .. Len(variableReferences) :
              variableReferences'[reference] = variableReferences[reference]
      ]_vars

\* C22 witness: a second fetch appended "b" behind the entries of the first.
C22_Witness ==
    /\ nData = 2
    /\ nCallbacks = 2
    /\ variableReferences = <<"a", "a.b", "b">>

RECURSIVE ReferenceTellsChildren(_)
\* In the parsed variable v and below it, reference is 0 for the nodes
\* without children and non-zero for the nodes with children.
ReferenceTellsChildren(v) ==
    LET children == IF v.values.k = "list" THEN v.values.items ELSE <<>> IN
    /\ (v.reference = 0) <=> (children = <<>>)
    /\ \A i \in 1 .. Len(children) : ReferenceTellsChildren(children[i])

\* C23: every parsed variable handed to a caller has reference 0 exactly
\* when it has no children.
C23_ReferenceZeroIffNoChildren ==
    /\ (result.op = "evaluate" /\ result.value.k = "var")
           => ReferenceTellsChildren(result.value)
    /\ result.op \in {"values", "children"}
           => \A i \in 1 .. Len(result.value) :
                  ReferenceTellsChildren(result.value[i])

\* The paused state of the remote that a stop event reports.
PausedStateOf(event) ==
    CASE event = "stopOnPause" -> "ExternalPaused"
      [] event = "stopOnBreakpoint" -> "BreakpointPaused"
      [] event = "stopOnStep" -> "StepPaused"

\* C24: a step sends a stop event only as the delivery of a response whose
\* execution field names the paused state the event reports, and then
\* once; no call of start, continue, step, pause or stop sends one.
C24_StopEventsFromResponses ==
    [][\A e \in StopEvents :
           /\ Sent(e)' # Sent(e) =>
                  /\ Sent(e)' = Sent(e) + 1
                  /\ nCommands' = nCommands
                  /\ Delivers(ExecBody(Str(PausedStateOf(e))))
           /\ nCommands' # nCommands => Sent(e)' = Sent(e)
      ]_vars

\* C24 witness: after step() alone a response reported StepPaused and
\* stopOnStep was emitted.
C24_Witness ==
    /\ nCommands = 1
    /\ lastCmd = "step"
    /\ emitted["stopOnStep"] = 1
    /\ emitted["stopOnPause"] = 0
    /\ emitted["stopOnBreakpoint"] = 0

\* The uri with every backslash replaced by a slash.
Slashed(uri) == [i \in 1 .. Len(uri) |-> IF uri[i] = "\\" THEN "/" ELSE uri[i]]

\* The positions of s at which a suffix of a dot followed by one or more
\* word characters begins (there is at most one: a dot is no word
\* character).
SuffixStarts(s) ==
    {k \in 1 .. (Len(s) - 1) :
        s[k] = "." /\ \A j \in (k + 1) .. Len(s) : s[j] \in WordChars}

\* out is the normalization of the uri in.
NormalizedAs(in, out) ==
    LET s == Slashed(in) IN
    /\ \A k \in SuffixStarts(s) : out = SubSeq(s, 1, k - 1)
    /\ SuffixStarts(s) = {} => out = s
    /\ (SuffixStarts(s) = {} /\ \A i \in 1 .. Len(in) : in[i] # "\\") => out = in

\* C25: the uri a source request and the path a setBreakPoints request
\* carry are the normalization of the argument of the call: its
\* backslashes replaced by slashes, then the one suffix of a dot and word
\* characters removed, and the argument itself when it has neither.
C25_PathNormalization ==
    \A req \in BagToSet(inflight) :
        /\ req.kind = "source" => NormalizedAs(req.arg, req.uri)
        /\ req.kind = "setBreakPoints" => NormalizedAs(req.arg, req.path)

\* C25 witness: source("a.a.a") asks for "a.a": one suffix was removed.
C25_Witness ==
    \E req \in BagToSet(inflight) :
        /\ req.kind = "source"
        /\ req.arg = <<"a", ".", "a", ".", "a">>
        /\ req.uri = <<"a", ".", "a">>

\* The data methods that keep nothing between calls.
EphemeralKinds == {"stackTrace", "setBreakPoints", "source"}

\* C26: a call of stackTrace, setBreakPoints or source, and the response
\* handler that completes it, change nothing of the session but the
\* requests in flight: not the reference table, not the timers, and no
\* event is sent; and no control call changes the reference table.
C26_EphemeralCallsKeepState ==
    [][/\ ((\/ (nData' = nData + 1 /\ lastSent' \in EphemeralKinds)
           \/ (nCallbacks' = nCallbacks + 1 /\ result'.op \in EphemeralKinds))
             => /\ variableReferences' = variableReferences
                /\ pollTimeout' = pollTimeout
                /\ orphanTimers' = orphanTimers
                /\ immediates' = immediates)
       /\ nCommands' # nCommands => variableReferences' = variableReferences
      ]_vars

\* C26 witness: start() and a poll response armed the timer; stackTrace
\* was called and completed, and the timer is still armed.
C26_Witness ==
    /\ nCommands = 1
    /\ lastCmd = "start"
    /\ nData = 1
    /\ nCallbacks = 1
    /\ result.op = "stackTrace"
    /\ pollTimeout = "armed"

RECURSIVE ParentReferences(_)
\* The references of the variables with at least one child among variables and
\* below them, one per node, in the order of the tree.
ParentReferences(variables) ==
    IF variables = <<>> THEN <<>>
    ELSE LET v == Head(variables)
             below == IF v.values.k = "list" THEN v.values.items ELSE <<>>
         IN (IF below # <<>> THEN <<v.reference>> ELSE <<>>)
                \o ParentReferences(below)
                \o ParentReferences(Tail(variables))

\* C27: in the tree a root listing returns, no two nodes with children
\* have the same reference.
C27_DistinctNodesDistinctReferences ==
    result.op = "values" =>
        LET refs == ParentReferences(result.value) IN
        \A i, j \in 1 .. Len(refs) : refs[i] = refs[j] => i = j

\* C28: once start() was called, and as long as the session has sent no
\* event (so no stop event since the last call, and no end), a poll is
\* pending: a poll request is in flight or the poll timer is armed.
C28_PollLoopAlive ==
    (Started /\ ~thrown /\ \A e \in Events : Sent(e) = 0)
        => (PollsInFlight > 0 \/ pollTimeout = "armed")

\* The last control call the session makes was continue() or step().
LastResumed == nCommands = MaxCommands /\ lastCmd \in {"continue", "step"}

\* C29: when the debuggee ends up in BreakpointPaused or StepPaused for
\* good, then from every state after the last continue() or step() in
\* which the matching stop event was not sent yet, the event is
\* eventually emitted (or the timer expirations explored are used up).
C29_PauseEventuallyReported ==
    \A e \in {"stopOnBreakpoint", "stopOnStep"} :
        (<>[](remote = PausedStateOf(e)))
            => ((LastResumed /\ Sent(e) = 0)
                    ~> (emitted[e] > 0 \/ fired = MaxPolls))

\* C30: when the root listing is fetched again and the answer is the one
\* the previous fetch received, the table stays as it is and the caller
\* is handed the same variables with the same references.
C30_RefreshIdempotent ==
    [][\A req \in {r \in BagToSet(inflight) :
                      /\ r.kind = "values"
                      /\ CopiesIn(r, inflight') < CopiesIn(r, inflight)} :
           (result.op = "values" /\ Deliver(req, result.response)) =>
               /\ variableReferences' = variableReferences
               /\ nCallbacks' = nCallbacks + 1
               /\ result'.value = result.value
      ]_vars

\* C30 witness: the tree with the nodes a, a.b and b was fetched twice;
\* both fetches completed and the table holds the two paths of the first.
C30_Witness ==
    /\ nData = 2
    /\ nCallbacks = 2
    /\ inflight = EmptyBag
    /\ result.op = "values"
    /\ result.response
           = Body("application/json", TRUE,
                  Obj(Undefined, Undefined, Undefined,
                      List(<<Node("a", <<Node("b", <<Leaf("d")>>)>>),
                             Node("b", <<Leaf("c")>>)>>)))
    /\ variableReferences = <<"a.b", "a">>
    /\ ParentReferences(result.value) = <<2, 1, 1>>

====
